---- MODULE Spec2Model ----
(***************************************************************************)
(* Sportswear Market Tracker (src/app.py): the cached report pipeline      *)
(* fetch_data, the cached FX resolver get_fx_rates, and the helpers        *)
(* revenue_ttm and daily_pct_change.                                       *)
(*                                                                         *)
(* Numbers are exact rationals [t, n, d] standing for n/d.  None stands    *)
(* for Python None and for NaN, Bad for a value of the wrong type (a       *)
(* string where a number is expected).  FX rates and USD amounts are kept  *)
(* in tenths (RateScale), so the rate 1.0 is 10 and 1.1 is 11.             *)
(***************************************************************************)
EXTENDS Integers, Sequences, FiniteSets, TLC

VARIABLES
    now,          \* wall clock, seconds
    pc,           \* position of the running script / of the function under call
    i,            \* index of the roster entry the running loop is at
    currs,        \* fetch_data: the list of prefetched currency codes
    fx,           \* fetch_data: the rate table returned by get_fx_rates
    rows,         \* fetch_data: rows built so far, in roster order
    notes,        \* fetch_data: advisory notes built so far
    loc,          \* fetch_data: locals of the loop iteration in progress / last done
    reportCache,  \* st.cache_data store of fetch_data (one constant key)
    fxCache,      \* st.cache_data store of get_fx_rates, keyed by its argument
    ret,          \* what the last run's fetch_data() call gave the script
    calls,        \* upstream calls made by the run in progress / last run
    refreshed,    \* whether the run in progress / last run pressed "Refresh now"
    computedAt,   \* history: when a report was last computed since the last refresh
    input,        \* argument of the function under call (function-level specifications)
    output        \* its result

vars ==
    <<now, pc, i, currs, fx, rows, notes, loc, reportCache, fxCache, ret, calls,
      refreshed, computedAt, input, output>>

pipeVars ==
    <<now, i, currs, fx, rows, notes, loc, reportCache, fxCache, ret, calls,
      refreshed, computedAt>>

--------------------------------------------------------------------------
(* Values *)

None ==
    [t |-> "none", n |-> 0, d |-> 1]

Bad ==
    [t |-> "bad", n |-> 0, d |-> 1]

Num(x) ==
    [t |-> "num", n |-> x, d |-> 1]

Frac(a, b) ==
    [t |-> "num", n |-> a, d |-> b]

IsNum(v) ==
    v.t = "num"

\* Python truthiness of a value: None and 0 are false, a non-empty string is true.
Truthy(v) ==
    v.t = "bad" \/ (v.t = "num" /\ v.n # 0)

Abs(x) ==
    IF x < 0 THEN -x ELSE x

Range(s) ==
    {s[k] : k \in 1..Len(s)}

RECURSIVE SeqsUpTo(_, _)
SeqsUpTo(S, n) ==
    IF n = 0 THEN {<<>>}
    ELSE LET shorter == SeqsUpTo(S, n - 1)
         IN  shorter \cup {Append(s, x) : s \in {t \in shorter : Len(t) = n - 1}, x \in S}

IsPresent(v) ==
    v # None

\* pandas Series.dropna()
dropna(s) ==
    SelectSeq(s, IsPresent)

RECURSIVE SumAllOf(_, _)
\* vals.sum(): the slice forgotten
SumAllOf(s, k) ==
    IF s = <<>> THEN 0
    ELSE Head(s).n + SumAllOf(Tail(s), k)

RECURSIVE SumFirst(_, _)
\* vals.iloc[:k].sum() of a numeric series
SumFirst(s, k) ==
    IF k = 0 \/ s = <<>> THEN 0
    ELSE Head(s).n + SumFirst(Tail(s), k - 1)

--------------------------------------------------------------------------
(* The info snapshot of a Ticker.  st = "raise": the property raises;      *)
(* st = "nondict": it returns a truthy object without .get; st = "dict":   *)
(* a mapping, a missing key and a None value both read as None (for the    *)
(* two currency keys: as "").  None and {} returned by the upstream behave *)
(* as the mapping with every key missing.                                  *)

NonStr ==
    "<int>"

MkInfo(st, fc, c, mc, pe, cp, pcl, tr) ==
    [st |-> st, financialCurrency |-> fc, currency |-> c, marketCap |-> mc,
     trailingPE |-> pe, currentPrice |-> cp, previousClose |-> pcl, totalRevenue |-> tr]

InfoRaise ==
    MkInfo("raise", "", "", None, None, None, None, None)

InfoNonDict ==
    MkInfo("nondict", "", "", None, None, None, None, None)

InfoEmpty ==
    MkInfo("dict", "", "", None, None, None, None, None)

\* safe(d, k): d.get(k), None when .get raises
safe(d, k) ==
    IF d.st = "dict" THEN d[k]
    ELSE IF k \in {"financialCurrency", "currency"} THEN "" ELSE None

--------------------------------------------------------------------------
(* daily_pct_change *)

OUTLIER_PCT ==
    50

\* the change reported whatever its size
FilterOutlierOff(n, d) ==
    Frac(n, d)

\* lines 88-92 and 98-101: change = n/d percent, None above the threshold
FilterOutlier(n, d) ==
    IF Abs(n) > OUTLIER_PCT * d THEN None ELSE Frac(n, d)

\* lines 94-101 (an exception anywhere in them is caught at line 102)
PctFallback(info) ==
    IF info.st # "dict" THEN None
    ELSE LET prev == info.previousClose
             last == info.currentPrice
         IN  IF Truthy(prev) /\ Truthy(last) /\ IsNum(prev) /\ prev.n > 0 /\ IsNum(last)
             THEN FilterOutlier((last.n - prev.n) * 100, prev.n)
             ELSE None

\* hist: the outcome of tkr.history(period="2d"): st = "raise", st = "nocol" (a
\* frame without a Close column, hist["Close"] raises) or st = "ok" with closes
daily_pct_change(hist, info) ==
    IF hist.st # "ok" THEN None
    ELSE LET closes == dropna(hist.closes)
             k == Len(closes)
         IN  IF k >= 2 /\ closes[k - 1].n > 0
             THEN FilterOutlier((closes[k].n - closes[k - 1].n) * 100, closes[k - 1].n)
             ELSE PctFallback(info)

--------------------------------------------------------------------------
(* revenue_ttm *)

REVENUE_KEYS ==
    <<"Total Revenue", "TotalRevenue">>

\* lines 69-71 for one key present in the index: the sum, None when the series has
\* no non-missing value, Bad when astype(float) raises
QuarterSum(series) ==
    LET vals == dropna(series)
    IN  IF \E k \in 1..Len(vals) : ~IsNum(vals[k]) THEN Bad
        ELSE IF Len(vals) > 0 THEN Num(SumFirst(vals, 4))
        ELSE None

\* lines 64-73: the primary method; None when it gives nothing (or raised)
RevenuePrimary(qf) ==
    IF qf.st # "ok" THEN None
    ELSE LET has(k) == REVENUE_KEYS[k] \in DOMAIN qf.rows
             sum(k) == QuarterSum(qf.rows[REVENUE_KEYS[k]])
         IN  IF has(1) /\ sum(1) = Bad THEN None
             ELSE IF has(1) /\ sum(1) # None THEN sum(1)
             ELSE IF has(2) /\ sum(2) = Bad THEN None
             ELSE IF has(2) /\ sum(2) # None THEN sum(2)
             ELSE None

\* qf: the outcome of tkr.quarterly_financials: st = "raise", "none", "empty", or
\* "ok" with rows, a function from the line items present to their series
revenue_ttm(qf, info) ==
    IF RevenuePrimary(qf) # None THEN RevenuePrimary(qf)
    ELSE IF info.st = "raise" THEN None
    ELSE safe(info, "totalRevenue")

--------------------------------------------------------------------------
(* st.cache_data(ttl=60*30): a store of entries [ts, val]; an entry is served   *)
(* while it is no older than the TTL, .clear() empties the store.  The key of   *)
(* an entry is the argument the decorated function was called with.             *)

FX_TTL ==
    1800

REPORT_TTL ==
    1800

NoEntry ==
    [ts |-> -1, val |-> <<>>, notes |-> <<>>]

EmptyCache ==
    [k \in {} |-> NoEntry]

\* the key st.cache_data derives from the argument of get_fx_rates: the list as
\* passed, order and repetitions included
FxCacheKey(codes) ==
    codes

FxLive(cache, t) ==
    [k \in {q \in DOMAIN cache : t - cache[q].ts <= FX_TTL} |-> cache[k]]

\* the function undecorated: nothing is ever served from the store
FxMiss(codes) ==
    FALSE

FxHit(codes) ==
    /\ FxCacheKey(codes) \in DOMAIN fxCache
    /\ now - fxCache[FxCacheKey(codes)].ts <= FX_TTL

FxStore(codes, table) ==
    [k \in DOMAIN fxCache \cup {FxCacheKey(codes)} |->
        IF k = FxCacheKey(codes) THEN [ts |-> now, val |-> table, notes |-> <<>>]
        ELSE fxCache[k]]

\* get_fx_rates.clear()
get_fx_rates_clear ==
    EmptyCache

ReportLive(entry, t) ==
    entry # NoEntry /\ t - entry.ts <= REPORT_TTL

\* the report store left as it is
fetch_data_keep ==
    reportCache

\* fetch_data.clear()
fetch_data_clear ==
    NoEntry

--------------------------------------------------------------------------
(* get_fx_rates *)

RateScale ==
    10

\* line 53: the codes a rate is fetched for
FxWanted(codes) ==
    {c \in Range(codes) : c # "" /\ c # "USD"}

\* lines 55-57 for one code: up[c] is the outcome of the history call of the
\* pair, st = "raise", "nocol" (["Close"] raises) or "ok" with its closes
FxResolved(c, up) ==
    up[c].st = "ok" /\ Len(up[c].closes) > 0

\* fx.iloc[0] for fx.iloc[-1]
get_fx_rates_first(codes, up) ==
    LET resolved == {c \in FxWanted(codes) : FxResolved(c, up)}
    IN  [c \in resolved \cup {"USD"} |-> IF c = "USD" THEN RateScale ELSE up[c].closes[1]]

\* lines 52-60, the body of the function
get_fx_rates(codes, up) ==
    LET resolved == {c \in FxWanted(codes) : FxResolved(c, up)}
    IN  [c \in resolved \cup {"USD"} |->
            IF c = "USD" THEN RateScale ELSE up[c].closes[Len(up[c].closes)]]

\* lines 50-51, the decorated function: the table, the store after the call and
\* the codes fetched upstream by it
cached_get_fx_rates(codes, up) ==
    IF FxHit(codes)
    THEN [val |-> fxCache[FxCacheKey(codes)].val, cache |-> fxCache, fetched |-> {},
          hit |-> TRUE]
    ELSE [val |-> get_fx_rates(codes, up),
          cache |-> FxStore(codes, get_fx_rates(codes, up)),
          fetched |-> FxWanted(codes), hit |-> FALSE]

--------------------------------------------------------------------------
(* DataFrame.sort_values("Market Cap (USD)", ascending=False,                *)
(* na_position="last"), line 165.  No kind is given, so pandas sorts with    *)
(* its default, quicksort, which is not a stable sort: the rows that hold a  *)
(* value come in non-increasing order, rows of equal value in an order the   *)
(* sort does not fix; the rows without a value are appended after them in    *)
(* their original order.                                                     *)

HasCap(r) ==
    r.mcap_usd # None

\* ascending=False forgotten
MinCap(rs, S) ==
    CHOOSE m \in {rs[k].mcap_usd.n : k \in S} : \A k \in S : rs[k].mcap_usd.n >= m

MaxCap(rs, S) ==
    CHOOSE m \in {rs[k].mcap_usd.n : k \in S} : \A k \in S : rs[k].mcap_usd.n <= m

RECURSIVE DescOrders(_, _)
\* the orders (sequences of positions) a descending sort of the positions S may give
DescOrders(rs, S) ==
    IF S = {} THEN {<<>>}
    ELSE UNION {{<<k>> \o rest : rest \in DescOrders(rs, S \ {k})} :
                    k \in {q \in S : rs[q].mcap_usd.n = MaxCap(rs, S)}}

RECURSIVE Ascending(_)
\* the positions of S in increasing order
Ascending(S) ==
    IF S = {} THEN <<>>
    ELSE LET m == CHOOSE x \in S : \A y \in S : x <= y
         IN  <<m>> \o Ascending(S \ {m})

sort_values(rs) ==
    LET present == {k \in 1..Len(rs) : HasCap(rs[k])}
        absent == Ascending({k \in 1..Len(rs) : ~HasCap(rs[k])})
    IN  {[k \in 1..Len(rs) |-> rs[(ord \o absent)[k]]] : ord \in DescOrders(rs, present)}

--------------------------------------------------------------------------
(* The clock.  Time passes between runs of the script (and between calls in *)
(* the function-level specifications), in MaxTicks steps of TickSec.         *)
(* Entries the TTL has expired are dropped as the clock advances: they are  *)
(* never served again.                                                     *)

TickSec ==
    1000

MaxTicks ==
    2

Tick ==
    /\ pc \in {"idle", "between"}
    /\ now + TickSec <= MaxTicks * TickSec
    /\ now' = now + TickSec
    /\ fxCache' = FxLive(fxCache, now')
    /\ reportCache' = IF ReportLive(reportCache, now') THEN reportCache ELSE NoEntry
    /\ UNCHANGED <<pc, i, currs, fx, rows, notes, loc, ret, calls, refreshed,
                   computedAt, input, output>>

NoCalls ==
    [info |-> 0, fx |-> {}]

NoLoc ==
    [st |-> "none"]

\* the state of the pipeline before the first run of the script
PipeInit ==
    /\ now = 0
    /\ i = 0
    /\ currs = <<>>
    /\ fx = EmptyCache
    /\ rows = <<>>
    /\ notes = <<>>
    /\ loc = NoLoc
    /\ reportCache = NoEntry
    /\ fxCache = EmptyCache
    /\ ret = [st |-> "none", df |-> <<>>, notes |-> <<>>]
    /\ calls = NoCalls
    /\ refreshed = FALSE
    /\ computedAt = -1

--------------------------------------------------------------------------
(* daily_pct_change called on every outcome of the 2-day history and of the *)
(* snapshot                                                                *)

MaxCloses ==
    2

CloseVals ==
    {None, Num(0), Num(100), Num(150), Num(151), Num(200)}

HistOutcomes ==
    {[st |-> "raise", closes |-> <<>>], [st |-> "nocol", closes |-> <<>>]}
        \cup {[st |-> "ok", closes |-> c] : c \in SeqsUpTo(CloseVals, MaxCloses)}

PctInfos ==
    {InfoRaise, InfoNonDict}
        \cup {MkInfo("dict", "", "", None, None, c, p, None) :
                c \in {None, Bad, Num(0), Num(100), Num(150), Num(151), Num(200)},
                p \in {None, Bad, Num(0), Num(-100), Num(100)}}

InitPct ==
    /\ PipeInit
    /\ pc = "call"
    /\ input \in [hist : HistOutcomes, info : PctInfos]
    /\ output = None

CallDailyPctChange ==
    /\ pc = "call"
    /\ pc' = "return"
    /\ output' = daily_pct_change(input.hist, input.info)
    /\ UNCHANGED <<pipeVars, input>>

SpecPct ==
    InitPct /\ [][CallDailyPctChange]_vars

--------------------------------------------------------------------------
(* revenue_ttm called on every outcome of the quarterly financials and of  *)
(* the snapshot                                                            *)

MaxQuarters ==
    5

QuarterVals ==
    {None, Num(7), Num(8), Num(9), Num(10), Num(12)}

OddSeries ==
    SeqsUpTo({None, Num(7), Bad}, 2)

QfOutcomes ==
    {[st |-> s, rows |-> EmptyCache] : s \in {"raise", "none", "empty", "ok"}}
        \cup {[st |-> "ok", rows |-> (REVENUE_KEYS[1] :> q)] :
                q \in SeqsUpTo(QuarterVals, MaxQuarters)}
        \cup {[st |-> "ok", rows |-> (REVENUE_KEYS[2] :> q)] : q \in OddSeries}
        \cup {[st |-> "ok", rows |-> (REVENUE_KEYS[1] :> q1 @@ REVENUE_KEYS[2] :> q2)] :
                q1 \in OddSeries, q2 \in OddSeries}

RevInfos ==
    {InfoRaise, InfoNonDict, InfoEmpty,
     MkInfo("dict", "", "", None, None, None, None, Num(40))}

InitRev ==
    /\ PipeInit
    /\ pc = "call"
    /\ input \in [qf : QfOutcomes, info : RevInfos]
    /\ output = None

CallRevenueTtm ==
    /\ pc = "call"
    /\ pc' = "return"
    /\ output' = revenue_ttm(input.qf, input.info)
    /\ UNCHANGED <<pipeVars, input>>

SpecRev ==
    InitRev /\ [][CallRevenueTtm]_vars

--------------------------------------------------------------------------
(* The sort of line 165 applied to every table of rows built in roster     *)
(* order                                                                   *)

MaxRows ==
    5

CapVals ==
    {None, Num(3), Num(5), Num(10)}

\* the rows of a table whose market caps are caps, Company being the roster index
RowsOf(caps) ==
    [k \in 1..Len(caps) |-> [Company |-> k, mcap_usd |-> caps[k]]]

InitSort ==
    /\ PipeInit
    /\ pc = "call"
    /\ input \in {RowsOf(caps) : caps \in SeqsUpTo(CapVals, MaxRows)}
    /\ output = <<>>

CallSortValues ==
    /\ pc = "call"
    /\ pc' = "return"
    /\ output' \in sort_values(input)
    /\ UNCHANGED <<pipeVars, input>>

SpecSort ==
    InitSort /\ [][CallSortValues]_vars

--------------------------------------------------------------------------
(* Properties of daily_pct_change (SpecPct) *)

\* what the claims call the primary method: the last two non-missing closes
Closes2 ==
    SelectSeq(input.hist.closes, IsPresent)

PrimaryComputes ==
    /\ input.hist.st = "ok"
    /\ Len(Closes2) >= 2
    /\ Closes2[Len(Closes2) - 1].n > 0

PrimaryRawN ==
    (Closes2[Len(Closes2)].n - Closes2[Len(Closes2) - 1].n) * 100

PrimaryRawD ==
    Closes2[Len(Closes2) - 1].n

SnapshotComputes ==
    /\ input.info.st = "dict"
    /\ IsNum(input.info.previousClose) /\ input.info.previousClose.n > 0
    /\ IsNum(input.info.currentPrice)

SnapshotRawN ==
    (input.info.currentPrice.n - input.info.previousClose.n) * 100

SnapshotRawD ==
    input.info.previousClose.n

\* C2: the value daily_pct_change returns is absent or a number of absolute value at
\* most 50, and when the raw change of the method that is used (the two closes when
\* they give a change, else the snapshot) exceeds 50 in absolute value the result is
\* absent: no value of the other method is substituted.
C2_PctWithinThreshold ==
    pc = "return" =>
        /\ output = None \/ (IsNum(output) /\ output.d > 0 /\ Abs(output.n) <= 50 * output.d)
        /\ (PrimaryComputes /\ Abs(PrimaryRawN) > 50 * PrimaryRawD) => output = None
        /\ (PrimaryComputes /\ Abs(PrimaryRawN) <= 50 * PrimaryRawD)
                => output = Frac(PrimaryRawN, PrimaryRawD)
        /\ (input.hist.st = "ok" /\ ~PrimaryComputes /\ SnapshotComputes
                /\ Abs(SnapshotRawN) > 50 * SnapshotRawD) => output = None

\* prev = 100, last = 200 with a snapshot that would give 0%: the result is absent
C2_Witness ==
    /\ pc = "return"
    /\ input.hist = [st |-> "ok", closes |-> <<Num(100), Num(200)>>]
    /\ input.info.previousClose = Num(100) /\ input.info.currentPrice = Num(100)
    /\ output = None

\* C9: whenever the two-close method yields no computed change (the history fetch
\* fails, fewer than two non-missing closes, prev zero or absent) the snapshot method
\* decides: with previousClose p > 0 and a present currentPrice c the result is
\* (c - p) / p * 100 when within 50 and absent otherwise; it is absent when p is zero
\* or absent, c is absent or the snapshot fetch fails.
C9_FallbackAttempted ==
    (pc = "return" /\ ~PrimaryComputes) =>
        /\ SnapshotComputes =>
            output = (IF Abs(SnapshotRawN) <= 50 * SnapshotRawD
                      THEN Frac(SnapshotRawN, SnapshotRawD) ELSE None)
        /\ (\/ input.info.st # "dict"
            \/ input.info.previousClose \in {None, Num(0)}
            \/ input.info.currentPrice = None) => output = None

--------------------------------------------------------------------------
(* Properties of revenue_ttm (SpecRev) *)

\* the non-missing values of the quarterly revenue series, newest first
Quarterly ==
    SelectSeq(input.qf.rows[REVENUE_KEYS[1]], IsPresent)

QuarterlyUsable ==
    /\ input.qf.st = "ok"
    /\ DOMAIN input.qf.rows = {REVENUE_KEYS[1]}
    /\ \A k \in 1..Len(Quarterly) : IsNum(Quarterly[k])
    /\ Len(Quarterly) >= 1

QuarterlyUnavailable ==
    \/ input.qf.st \in {"raise", "none", "empty"}
    \/ DOMAIN input.qf.rows = {}
    \/ \A k \in DOMAIN input.qf.rows : SelectSeq(input.qf.rows[k], IsPresent) = <<>>

Nth(q, k) ==
    IF k <= Len(q) THEN q[k].n ELSE 0

\* C3: revenue_ttm is the sum of the four most recent non-missing quarterly values
\* (of all of them when fewer exist) whenever one exists; when the quarterly series
\* is empty, unavailable or raises it is the snapshot's totalRevenue, absent when the
\* snapshot is unavailable too.
C3_RevenueTtm ==
    pc = "return" =>
        /\ QuarterlyUsable =>
            output = Num(Nth(Quarterly, 1) + Nth(Quarterly, 2) + Nth(Quarterly, 3)
                            + Nth(Quarterly, 4))
        /\ QuarterlyUnavailable =>
            output = (IF input.info.st = "dict" THEN input.info.totalRevenue ELSE None)

\* quarters [10, 12, 9, 8, 7] give 39
C3_Witness ==
    /\ pc = "return"
    /\ input.qf.st = "ok"
    /\ DOMAIN input.qf.rows = {REVENUE_KEYS[1]}
    /\ input.qf.rows[REVENUE_KEYS[1]] = <<Num(10), Num(12), Num(9), Num(8), Num(7)>>
    /\ output = Num(39)

--------------------------------------------------------------------------
(* Properties of the sort (SpecSort) *)

IsPermutation ==
    /\ Len(output) = Len(input)
    /\ Range(output) = Range(input)

PresentFirstDescending ==
    \A j, k \in 1..Len(output) :
        (j < k /\ output[k].mcap_usd # None) =>
            /\ output[j].mcap_usd # None
            /\ output[j].mcap_usd.n >= output[k].mcap_usd.n

AbsentKeepOrder ==
    \A j, k \in 1..Len(output) :
        (j < k /\ output[j].mcap_usd = None /\ output[k].mcap_usd = None) =>
            output[j].Company < output[k].Company

TiesKeepOrder ==
    \A j, k \in 1..Len(output) :
        (j < k /\ output[j].mcap_usd # None /\ output[j].mcap_usd = output[k].mcap_usd) =>
            output[j].Company < output[k].Company

--------------------------------------------------------------------------
(* get_fx_rates called twice, on any two collections of codes and any       *)
(* outcome of each FX fetch; between the calls time may pass and the store  *)
(* may be cleared.                                                          *)

MaxCodes ==
    2

Codes ==
    {"", "USD", "EUR", "JPY"}

FxCodes ==
    {"EUR", "JPY"}

FxOutcomes ==
    {[st |-> "raise", closes |-> <<>>], [st |-> "ok", closes |-> <<>>],
     [st |-> "ok", closes |-> <<12, 11>>]}

NoCall ==
    [codes |-> <<>>, up |-> EmptyCache, at |-> -1, hit |-> FALSE]

InitFx ==
    /\ PipeInit
    /\ pc = "call1"
    /\ input = NoCall
    /\ output = EmptyCache

CallGetFxRates ==
    /\ pc \in {"call1", "between"}
    /\ \E codes \in SeqsUpTo(Codes, MaxCodes) :
         \E up \in [Range(codes) \cap FxCodes -> FxOutcomes] :
            LET r == cached_get_fx_rates(codes, up)
            IN  /\ output' = r.val
                /\ fxCache' = r.cache
                /\ calls' = [info |-> 0, fx |-> r.fetched]
                /\ input' = [codes |-> codes, up |-> IF r.hit THEN EmptyCache ELSE up,
                             at |-> now, hit |-> r.hit]
    /\ loc' = IF pc = "call1" THEN loc
              ELSE [codes |-> input.codes, at |-> input.at, val |-> output]
    /\ pc' = IF pc = "call1" THEN "between" ELSE "done"
    /\ UNCHANGED <<now, i, currs, fx, rows, notes, reportCache, ret, refreshed, computedAt>>

ClearFx ==
    /\ pc = "between"
    /\ ~refreshed
    /\ fxCache' = get_fx_rates_clear
    /\ refreshed' = TRUE
    /\ UNCHANGED <<now, pc, i, currs, fx, rows, notes, loc, reportCache, ret, calls,
                   computedAt, input, output>>

NextFx ==
    CallGetFxRates \/ ClearFx \/ Tick

SpecFx ==
    InitFx /\ [][NextFx]_vars

--------------------------------------------------------------------------
(* Properties of get_fx_rates (SpecFx) *)

Returned ==
    pc \in {"between", "done"}

\* the codes of the input whose FX fetch returned a non-empty close series
GotCloses ==
    {c \in Range(input.codes) \cap FxCodes :
        input.up[c].st = "ok" /\ input.up[c].closes # <<>>}

\* C7: for every collection of codes and every pattern of FX fetch outcomes the table
\* maps "USD" to 1.0 and holds a non-USD code exactly when the code was in the input
\* and its fetch returned a non-empty close series, mapped to the last close.
C7_RateTable ==
    Returned =>
        /\ "USD" \in DOMAIN output /\ output["USD"] = 10
        /\ ~input.hit =>
            /\ DOMAIN output = {"USD"} \cup GotCloses
            /\ calls.fx = Range(input.codes) \cap FxCodes
            /\ \A c \in GotCloses :
                 \E k \in 1..2 : Len(input.up[c].closes) = k /\ output[c] = input.up[c].closes[k]

\* of JPY and EUR the second fails: the table holds USD and JPY only
C7_Witness ==
    /\ Returned
    /\ ~input.hit
    /\ input.codes = <<"JPY", "EUR">>
    /\ input.up["EUR"].st = "raise"
    /\ output = ("USD" :> 10 @@ "JPY" :> 11)

SecondCall ==
    pc = "done" /\ ~refreshed /\ input.at - loc.at <= 1800

ServedFromStore ==
    calls.fx = {} /\ output = loc.val

\* C8 as amended: the store is keyed by the collection of codes as passed; a second
\* call with the identical sequence of codes, made within the TTL of the call that
\* computed the table with no refresh between them, is a cache hit that makes no
\* upstream FX fetch and returns the same table.
C8_KeyedBySequence ==
    (SecondCall /\ input.codes = loc.codes) => ServedFromStore

\* C8 as claimed: the same holds whenever the two collections hold the same set of
\* codes, in any order and with any multiplicity.
C8_KeyedBySet ==
    (SecondCall /\ Range(input.codes) = Range(loc.codes)) => ServedFromStore

C8_Witness ==
    /\ SecondCall
    /\ input.codes = <<"EUR", "JPY">> /\ loc.codes = <<"EUR", "JPY">>
    /\ input.at = loc.at + TickSec
    /\ ServedFromStore
    /\ "EUR" \in DOMAIN output

--------------------------------------------------------------------------
(* The script, lines 171-182: one run of it (Rerun) clears both stores when *)
(* "Refresh now" was pressed and calls fetch_data(), which serves the       *)
(* stored report or runs a fetch cycle, lines 106-166.  The cycle is taken  *)
(* in steps at its upstream calls; nothing else runs while it does.         *)
(*                                                                         *)
(* The roster is cut to two entries, an ordinary one and Skechers, the one  *)
(* entry the code treats specially.  Their tickers hold nothing that        *)
(* clean_ticker strips.  The snapshot of one Ticker object is read once:    *)
(* the reads of tkr.info in revenue_ttm and daily_pct_change see what the   *)
(* read of line 126 saw.  The Ticker of the prefetch pass (line 112) and    *)
(* the Ticker of the metric pass (line 122) are two objects and fetch the   *)
(* snapshot each on its own.                                                *)

COMPANIES ==
    <<<<"Nike", "NKE">>, <<"Skechers", "SKX">>>>

NRoster ==
    Len(COMPANIES)

SKX_NOTE ==
    "SKX: corporate action/delisting risk may limit recent quotes; data may be incomplete."

\* str.upper() on the codes the snapshots carry
upper(c) ==
    CASE c = "usd" -> "USD"
      [] c = "eur" -> "EUR"
      [] OTHER -> c

\* a or b
Or(a, b) ==
    IF a # "" THEN a ELSE b

InfoSnapshots ==
    {InfoRaise,
     MkInfo("dict", "EUR", "EUR", Num(1000000), Num(20), Num(100), Num(100), Num(40)),
     MkInfo("dict", "", "usd", Num(0), None, None, Num(100), Num(0)),
     MkInfo("dict", "USD", "", Bad, None, Num(100), None, None),
     MkInfo("dict", NonStr, "", Num(5), None, Num(100), None, None)}

\* the three time series of one ticker (quarterly financials, 2-day and 1-day
\* history): all fail or all return data
SeriesSnapshots ==
    {[qf |-> [st |-> "raise", rows |-> EmptyCache], hist |-> [st |-> "raise", closes |-> <<>>],
      hist1 |-> [st |-> "raise", closes |-> <<>>]],
     [qf |-> [st |-> "ok",
              rows |-> (REVENUE_KEYS[1] :> <<Num(10), Num(12), Num(9), Num(8), Num(7)>>)],
      hist |-> [st |-> "ok", closes |-> <<Num(100), Num(150)>>],
      hist1 |-> [st |-> "ok", closes |-> <<Num(100)>>]]}

Init ==
    /\ PipeInit
    /\ pc = "idle"
    /\ input = NoCall
    /\ output = EmptyCache

Raised ==
    [st |-> "raised", df |-> <<>>, notes |-> <<>>]

\* lines 177-182 up to the lookup of the report store
Rerun ==
    /\ pc = "idle"
    /\ \E refresh \in BOOLEAN :
         LET rc == IF refresh THEN fetch_data_clear ELSE reportCache
         IN  /\ refreshed' = refresh
             /\ fxCache' = IF refresh THEN get_fx_rates_clear ELSE fxCache
             /\ computedAt' = IF refresh THEN -1 ELSE computedAt
             /\ calls' = NoCalls
             /\ reportCache' = rc
             /\ IF ReportLive(rc, now)
                THEN /\ ret' = [st |-> "ok", df |-> rc.val, notes |-> rc.notes]
                     /\ UNCHANGED <<pc, i>>
                ELSE /\ ret' = [st |-> "running", df |-> <<>>, notes |-> <<>>]
                     /\ pc' = "prefetch"
                     /\ i' = 1
    /\ UNCHANGED <<now, currs, fx, rows, notes, loc, input, output>>

\* lines 111-115 for one ticker
PrefetchCurrency(info) ==
    IF info.st = "raise" THEN "USD"
    ELSE LET c == Or(safe(info, "financialCurrency"), Or(safe(info, "currency"), "USD"))
         IN  IF c = NonStr THEN "USD" ELSE upper(c)

\* lines 110-115, one iteration
Prefetch ==
    /\ pc = "prefetch"
    /\ \E info \in InfoSnapshots : currs' = Append(currs, PrefetchCurrency(info))
    /\ calls' = [calls EXCEPT !.info = @ + 1]
    /\ IF i = NRoster THEN pc' = "rates" /\ i' = 1 ELSE pc' = pc /\ i' = i + 1
    /\ UNCHANGED <<now, fx, rows, notes, loc, reportCache, fxCache, ret, refreshed,
                   computedAt, input, output>>

\* line 116
GetRates ==
    /\ pc = "rates"
    /\ \E up \in [Range(currs) \cap FxCodes -> FxOutcomes] :
         LET r == cached_get_fx_rates(currs, up)
         IN  /\ fx' = r.val
             /\ fxCache' = r.cache
             /\ calls' = [calls EXCEPT !.fx = r.fetched]
    /\ pc' = "fetch"
    /\ UNCHANGED <<now, i, currs, rows, notes, loc, reportCache, ret, refreshed,
                   computedAt, input, output>>

\* line 130 before .upper()
RowCurrency(info, cur) ==
    Or(safe(info, "financialCurrency"), Or(safe(info, "currency"), Or(cur, "USD")))

\* fetch_data raises: its locals are gone and nothing is stored
Raise ==
    /\ pc' = "idle"
    /\ ret' = Raised
    /\ i' = 0
    /\ currs' = <<>>
    /\ fx' = EmptyCache
    /\ rows' = <<>>
    /\ notes' = <<>>
    /\ loc' = NoLoc
    /\ UNCHANGED <<reportCache, computedAt>>

\* lines 137-138: float(v) * rate if v else None; Bad stands for float(v) raising
ToUsd(v, rate) ==
    IF ~Truthy(v) THEN None
    ELSE IF IsNum(v) THEN Num(v.n * rate)
    ELSE Bad

\* line 136
RateOf(currency) ==
    IF currency \in DOMAIN fx THEN fx[currency] ELSE RateScale

\* lines 140-147
LastPrice(info, hist) ==
    IF safe(info, "currentPrice") # None THEN safe(info, "currentPrice")
    ELSE IF hist.st = "ok" /\ Len(hist.closes) > 0 THEN hist.closes[Len(hist.closes)]
    ELSE None

\* lines 121-147: the locals of one iteration of the loop; st = "raise" when
\* .upper() (line 130) or float() (lines 137-138) raises
Locals(got, ser, cur) ==
    LET info == IF got.st = "raise" THEN InfoEmpty ELSE got
        c == RowCurrency(info, cur)
        currency == upper(c)
        mktcap_nat == safe(info, "marketCap")
        rev_nat == revenue_ttm(ser.qf, got)
        rate == RateOf(currency)
        mktcap_usd == ToUsd(mktcap_nat, rate)
        rev_usd == ToUsd(rev_nat, rate)
    IN  [st |-> IF c = NonStr \/ mktcap_usd = Bad \/ rev_usd = Bad THEN "raise" ELSE "ok",
         currency |-> currency, mktcap_nat |-> mktcap_nat, rev_nat |-> rev_nat,
         pe |-> safe(info, "trailingPE"), pct |-> daily_pct_change(ser.hist, got),
         rate |-> rate, mktcap_usd |-> mktcap_usd, rev_usd |-> rev_usd,
         last |-> LastPrice(info, ser.hist1)]

\* lines 149-150
SkxNotes(name, l) ==
    IF name = "Skechers" /\ (l.pct = None \/ l.mktcap_usd = None)
    THEN Append(notes, SKX_NOTE) ELSE notes

\* lines 152-162
MkRow(k, l) ==
    [Company |-> COMPANIES[k][1], Ticker |-> COMPANIES[k][2], currency |-> l.currency,
     last |-> l.last, mcap_usd |-> l.mktcap_usd, rev_usd |-> l.rev_usd, pe |-> l.pe,
     pct |-> l.pct, Updated |-> now]

\* lines 120-163 for one roster entry, and after the last entry lines 165-166 and
\* the store of the result; the locals end with the call
Entity ==
    /\ pc = "fetch"
    /\ \E got \in InfoSnapshots, ser \in SeriesSnapshots :
         LET l == Locals(got, ser, currs[i])
         IN  IF l.st = "raise"
             THEN Raise
             ELSE IF i < NRoster
             THEN /\ rows' = Append(rows, MkRow(i, l))
                  /\ notes' = SkxNotes(COMPANIES[i][1], l)
                  /\ i' = i + 1
                  /\ pc' = "fetch"
                  /\ loc' = l
                  /\ UNCHANGED <<currs, fx, reportCache, ret, computedAt>>
             ELSE /\ \E df \in sort_values(Append(rows, MkRow(i, l))) :
                       /\ reportCache' = [ts |-> now, val |-> df,
                                          notes |-> SkxNotes(COMPANIES[i][1], l)]
                       /\ ret' = [st |-> "ok", df |-> df,
                                  notes |-> SkxNotes(COMPANIES[i][1], l)]
                  /\ computedAt' = now
                  /\ pc' = "idle"
                  /\ i' = 0
                  /\ currs' = <<>>
                  /\ fx' = EmptyCache
                  /\ rows' = <<>>
                  /\ notes' = <<>>
                  /\ loc' = NoLoc
    /\ calls' = [calls EXCEPT !.info = @ + 1]
    /\ UNCHANGED <<now, fxCache, refreshed, input, output>>

Next ==
    Rerun \/ Prefetch \/ GetRates \/ Entity \/ Tick

Spec ==
    Init /\ [][Next]_vars

--------------------------------------------------------------------------
(* Properties of the pipeline (Spec) *)

\* C1: for every combination of upstream outcomes fetch_data completes without
\* raising and returns exactly one row per roster entry.
C1_NeverRaises ==
    /\ ret.st # "raised"
    /\ (pc = "idle" /\ ret.st = "ok") => Len(ret.df) = NRoster

\* the rate the claims give a row: the resolved rate of its currency, else 1.0
ClaimedRate ==
    IF loc.currency \in DOMAIN fx THEN fx[loc.currency] ELSE 10

ClaimedUsd(v) ==
    IF v = None THEN None ELSE Num(v.n * ClaimedRate)

\* C4: marketCapUSD (and likewise revenueTTMUSD) is absent if the native value is
\* absent and otherwise, for every present native value v, 0 included, it is v times
\* the resolved rate of the native currency, v times 1.0 when the rate is unresolved.
C4_UsdConversion ==
    (pc = "fetch" /\ loc # NoLoc) =>
        /\ loc.mktcap_usd = ClaimedUsd(loc.mktcap_nat)
        /\ loc.rev_usd = ClaimedUsd(loc.rev_nat)

\* a run of the script reads the report: at "idle" every step but the clock's
Read ==
    pc = "idle" /\ now' = now

\* C5: a read performs a live fetch cycle exactly when no report has been computed
\* since the last refresh or the last computed report is older than the 30-minute
\* TTL; after a refresh the entity data and the FX rates are fetched again from
\* upstream and the rows carry new timestamps; in every other case the read makes no
\* upstream call and returns the previously computed rows and notes unchanged,
\* timestamps included.
C5_CacheLifecycle ==
    [][/\ Read => /\ (pc' = "prefetch") <=>
                        (refreshed' \/ computedAt = -1 \/ now - computedAt > 1800)
                  /\ pc' = "idle" =>
                        /\ ret' = ret
                        /\ ret.st = "ok"
                        /\ calls' = NoCalls
                        /\ \A k \in 1..Len(ret'.df) : ret'.df[k].Updated = computedAt
       /\ (pc = "rates" /\ refreshed) => calls'.fx = Range(currs) \cap FxCodes
       /\ (pc = "fetch" /\ pc' = "idle" /\ ret'.st = "ok") =>
            /\ calls'.info = 2 * NRoster
            /\ Len(ret'.df) = NRoster
            /\ \A k \in 1..NRoster : ret'.df[k].Updated = now
      ]_vars

\* a read one tick after the report was computed: no upstream call, the rows of the
\* earlier cycle with their timestamps
C5_Witness ==
    /\ pc = "idle"
    /\ now = TickSec
    /\ computedAt = 0
    /\ calls = NoCalls
    /\ ret.st = "ok"
    /\ Len(ret.df) = NRoster
    /\ ret.df[1].Updated = 0

\* C10: in every fetch cycle the native currency a row is converted with (and
\* reports) is a member of the code set passed to get_fx_rates in that cycle.
C10_CurrencyInCodeSet ==
    pc = "fetch" => \A k \in 1..Len(rows) : rows[k].currency \in Range(currs)

====
